---- MODULE Spec2Model ----
(***************************************************************************)
(* Model of video_generator.py: a script that, for every scene file,      *)
(* downloads images, synthesizes the narration, splits the narration      *)
(* duration over the scenes by word count, composites one clip per scene, *)
(* assembles and exports the video and removes its working directories.   *)
(*                                                                         *)
(* Python floats are modelled as binary floating-point numbers            *)
(* m * 2^e with a Precision-bit mantissa and round-to-nearest-even, the   *)
(* arithmetic of IEEE 754 doubles (Precision = 53) scaled down.           *)
(***************************************************************************)
EXTENDS Integers, Sequences, FiniteSets

\* ------------------------------------------------------------------ bounds
\* Mantissa bits of the modelled floats.
Precision == 4
\* Scenes per scene file, and words per scene text, of the allocation inputs.
MaxScenes == 2
MaxWords == 3
\* Scene files in SCENES_DIR and words per scene text of the pipeline.
NumSets == 2
MaxPipelineWords == 1

\* ------------------------------------------------------- program constants
IMAGE_COUNT_PER_SCENE == 2

\* ------------------------------------------------------ float arithmetic
RECURSIVE Pow2(_)
Pow2(n) == IF n = 0 THEN 1 ELSE 2 * Pow2(n - 1)

Zero == [m |-> 0, e |-> 0]

\* q = num / den with 2^(Precision-1) <= num / den < 2^Precision: the nearest
\* integer, ties to the even one.
RoundHalfEven(num, den) ==
    LET q == num \div den
        r == num % den
    IN  IF 2 * r > den \/ (2 * r = den /\ q % 2 = 1) THEN q + 1 ELSE q

RECURSIVE RoundScaled(_, _, _)
\* The float nearest to (num / den) * 2^e, for num > 0 and den > 0.
RoundScaled(num, den, e) ==
    IF num >= den * Pow2(Precision) THEN RoundScaled(num, 2 * den, e + 1)
    ELSE IF num < den * Pow2(Precision - 1) THEN RoundScaled(2 * num, den, e - 1)
    ELSE LET q == RoundHalfEven(num, den)
         IN  IF q = Pow2(Precision)
             THEN [m |-> Pow2(Precision - 1), e |-> e + 1]
             ELSE [m |-> q, e |-> e]

\* The float nearest to the rational num / den (num >= 0, den > 0).
Round(num, den) == IF num = 0 THEN Zero ELSE RoundScaled(num, den, 0)

\* int / int (Python true division: the correctly rounded quotient).
IntDiv(a, b) == Round(a, b)

\* float * float
FMul(x, y) ==
    IF x.m = 0 \/ y.m = 0 THEN Zero ELSE RoundScaled(x.m * y.m, 1, x.e + y.e)

\* float / int
FDivInt(x, n) == IF x.m = 0 THEN Zero ELSE RoundScaled(x.m, n, x.e)

\* x <= y for floats (and for any m * 2^e pairs).
FLeq(x, y) ==
    LET lo == IF x.e < y.e THEN x.e ELSE y.e
    IN  x.m * Pow2(x.e - lo) <= y.m * Pow2(y.e - lo)

FMax(x, y) == IF FLeq(x, y) THEN y ELSE x


\* 2.5, the floor of line 122.
MinImageDuration == Round(5, 2)

\* ----------------------------------------------------------------- inputs
RECURSIVE Text(_)
\* A text of k words separated by single spaces, as its characters.
Text(k) ==
    IF k = 0 THEN << >>
    ELSE IF k = 1 THEN << "a" >>
    ELSE Text(k - 1) \o << " ", "a" >>

\* Scene lists of 1..maxLen scenes whose texts have 0..maxWords words (a
\* scene file holding no scene is left out: what becomes of it is decided
\* by concatenate_videoclips on an empty list, outside this script).
SceneLists(maxLen, maxWords) ==
    UNION { [1..n -> { Text(k) : k \in 0..maxWords }] : n \in 1..maxLen }

\* Narration durations the synthesized audio may have: 4.5 s and 12 s.
Durations == { Round(9, 2), Round(12, 1) }

\* Narration durations of the allocation inputs: 3.5, 4.5, 6.5, 12 and 13 s.
AllocDurations ==
    { Round(7, 2), Round(9, 2), Round(13, 2), Round(12, 1), Round(13, 1) }

\* --------------------------------------------------------- pure functions
\* len(text.split()): the number of maximal runs of non-space characters.
WordCount(text) ==
    Cardinality({ i \in 1..Len(text) :
                    text[i] # " " /\ (i = 1 \/ text[i - 1] = " ") })

RECURSIVE SumSeq(_)
SumSeq(s) == IF s = << >> THEN 0 ELSE Head(s) + SumSeq(Tail(s))

scene_word_counts(texts) == [i \in 1..Len(texts) |-> WordCount(texts[i])]

total_words(texts) == SumSeq(scene_word_counts(texts))

\* Floor division (count // total_words) in place of true division.
scene_durations_floordiv(texts, total) ==
    [i \in 1..Len(texts) |->
        FMul(Round(scene_word_counts(texts)[i] \div total_words(texts), 1), total)]

\* (count / total_words) * total_audio_duration for every scene.
scene_durations(texts, total) ==
    [i \in 1..Len(texts) |->
        FMul(IntDiv(scene_word_counts(texts)[i], total_words(texts)), total)]

\* The division without the floor.
per_img_duration_nofloor(duration, n) == FDivInt(duration, n)

\* max(duration / len(images), 2.5)
per_img_duration(duration, n) == FMax(FDivInt(duration, n), MinImageDuration)

\* ------------------------------------------------------------------ state
VARIABLES
    rerun,           \* FALSE in the first run of the script, TRUE in its re-run
    pc,              \* position of the script
    reason,          \* the exception that ended the run, "" if none
    cur,             \* index in SCENES_FILES of the scene file in the loop
    idx,             \* scene index of the download and compositing loops
    scenes,          \* scene texts loaded from the current scene file
    imageDir,        \* imageDir[s]: images_<base> exists
    audioDir,        \* audioDir[s]: audio_<base> exists
    sceneDirs,       \* sceneDirs[s]: the i with images_<base>/scene<i>
    nfiles,          \* nfiles[s][i]: image files img1..img<k> in scene<i>
    audioFile,       \* audioFile[s]: audio_<base>/full_audio.mp3 exists
    outVideo,        \* outVideo[s]: output/<base>/final_video.mp4 exists
    downloaded,      \* images written for each scene of the current file, this run
    searches,        \* scenes of the current file searched for, this run
    ttsCalls,        \* speech synthesis calls for the current file, this run
    begun,           \* scene files whose iteration started in this run
    exported,        \* scene files whose video was exported in this run
    total_audio_duration,
    durations,       \* scene_durations of the current file
    scene_clips,     \* the clips composited for the current file
    final            \* durations of the parts of the assembled video

vars == << rerun, pc, reason, cur, idx, scenes, imageDir, audioDir, sceneDirs,
           nfiles, audioFile, outVideo, downloaded, searches, ttsCalls, begun,
           exported, total_audio_duration, durations, scene_clips, final >>

fsVars == << imageDir, audioDir, sceneDirs, nfiles, audioFile, outVideo >>

Sets == 1..NumSets
SceneIds == 1..MaxScenes

NoDownloads == [i \in SceneIds |-> 0]
NoFinal == [video |-> Zero, overlay |-> Zero, music |-> Zero, audio |-> Zero]

\* The filesystem before the first run: no working directory, no video.
Init ==
    /\ rerun = FALSE
    /\ pc = "loop"
    /\ reason = ""
    /\ cur = 0
    /\ idx = 0
    /\ scenes = << >>
    /\ imageDir = [s \in Sets |-> FALSE]
    /\ audioDir = [s \in Sets |-> FALSE]
    /\ sceneDirs = [s \in Sets |-> {}]
    /\ nfiles = [s \in Sets |-> [i \in SceneIds |-> 0]]
    /\ audioFile = [s \in Sets |-> FALSE]
    /\ outVideo = [s \in Sets |-> FALSE]
    /\ downloaded = NoDownloads
    /\ searches = {}
    /\ ttsCalls = 0
    /\ begun = {}
    /\ exported = {}
    /\ total_audio_duration = Zero
    /\ durations = << >>
    /\ scene_clips = << >>
    /\ final = NoFinal

\* An exception reaches the top level: the process exits.
Raise(why) ==
    /\ pc' = "aborted"
    /\ reason' = why

\* Top of the loop over SCENES_FILES: create the directories, load the scenes.
BeginSet(inputs) ==
    /\ pc = "loop"
    /\ cur < NumSets
    /\ cur' = cur + 1
    /\ imageDir' = [imageDir EXCEPT ![cur + 1] = TRUE]
    /\ audioDir' = [audioDir EXCEPT ![cur + 1] = TRUE]
    /\ scenes' \in inputs
    /\ idx' = 1
    /\ pc' = "download"
    /\ begun' = begun \cup {cur + 1}
    /\ downloaded' = NoDownloads
    /\ searches' = {}
    /\ ttsCalls' = 0
    /\ UNCHANGED << rerun, reason, sceneDirs, nfiles, audioFile, outVideo, exported,
                    total_audio_duration, durations, scene_clips, final >>

\* Files in the scene directory after download_images wrote k of them:
\* img1..img<k> are overwritten, any other file stays.
FilesAfterDownload(old, k) == IF k > old THEN k ELSE old

\* download_images raising on an empty result instead of returning.
DownloadStrict ==
    /\ pc = "download"
    /\ \E k \in 0..IMAGE_COUNT_PER_SCENE :
        /\ sceneDirs' = [sceneDirs EXCEPT ![cur] = @ \cup {idx}]
        /\ nfiles' = [nfiles EXCEPT ![cur][idx] = FilesAfterDownload(@, k)]
        /\ downloaded' = [downloaded EXCEPT ![idx] = k]
        /\ IF k = 0
           THEN Raise("noimages") /\ idx' = idx
           ELSE /\ reason' = reason
                /\ IF idx < Len(scenes)
                   THEN idx' = idx + 1 /\ pc' = pc
                   ELSE idx' = 0 /\ pc' = "tts"
    /\ searches' = searches \cup {idx}
    /\ UNCHANGED << rerun, cur, scenes, imageDir, audioDir, audioFile,
                    outVideo, ttsCalls, begun, exported, total_audio_duration,
                    durations, scene_clips, final >>

\* Step 1, one call of download_images: the search returns k photos.
Download ==
    /\ pc = "download"
    /\ \E k \in 0..IMAGE_COUNT_PER_SCENE :
        /\ sceneDirs' = [sceneDirs EXCEPT ![cur] = @ \cup {idx}]
        /\ nfiles' = [nfiles EXCEPT ![cur][idx] = FilesAfterDownload(@, k)]
        /\ downloaded' = [downloaded EXCEPT ![idx] = k]
    /\ searches' = searches \cup {idx}
    /\ IF idx < Len(scenes)
       THEN idx' = idx + 1 /\ pc' = pc
       ELSE idx' = 0 /\ pc' = "tts"
    /\ UNCHANGED << rerun, reason, cur, scenes, imageDir, audioDir, audioFile,
                    outVideo, ttsCalls, begun, exported, total_audio_duration,
                    durations, scene_clips, final >>

\* generate_tts inside a try/except that skips to the next scene file.
TtsCaught ==
    /\ pc = "tts"
    /\ ttsCalls' = ttsCalls + 1
    /\ \/ /\ audioFile' = [audioFile EXCEPT ![cur] = TRUE]
          /\ total_audio_duration' \in Durations
          /\ pc' = "alloc"
          /\ UNCHANGED reason
       \/ /\ pc' = IF cur < NumSets THEN "loop" ELSE "finished"
          /\ reason' = "tts"
          /\ UNCHANGED << audioFile, total_audio_duration >>
    /\ UNCHANGED << rerun, cur, idx, scenes, imageDir, audioDir, sceneDirs, nfiles,
                    outVideo, downloaded, searches, begun, exported, durations,
                    scene_clips, final >>

\* Step 2, generate_tts: on success the audio file is written and its
\* duration read back; any other result raises, the file taken to be left
\* as it was.
Tts ==
    /\ pc = "tts"
    /\ ttsCalls' = ttsCalls + 1
    /\ \/ /\ audioFile' = [audioFile EXCEPT ![cur] = TRUE]
          /\ total_audio_duration' \in Durations
          /\ pc' = "alloc"
          /\ UNCHANGED reason
       \/ /\ Raise("tts")
          /\ UNCHANGED << audioFile, total_audio_duration >>
    /\ UNCHANGED << rerun, cur, idx, scenes, imageDir, audioDir, sceneDirs, nfiles,
                    outVideo, downloaded, searches, begun, exported, durations,
                    scene_clips, final >>

\* Step 3: split the duration; count / 0 raises ZeroDivisionError.
Alloc ==
    /\ pc = "alloc"
    /\ IF total_words(scenes) = 0
       THEN /\ Raise("zerodivision")
            /\ UNCHANGED << idx, durations >>
       ELSE /\ durations' = scene_durations(scenes, total_audio_duration)
            /\ idx' = 1
            /\ pc' = "composite"
            /\ UNCHANGED reason
    /\ UNCHANGED << rerun, cur, scenes, imageDir, audioDir, sceneDirs, nfiles,
                    audioFile, outVideo, downloaded, searches, ttsCalls, begun,
                    exported, total_audio_duration, scene_clips, final >>

\* The concatenation of the image clips left at its own length.
SceneClipUncut(duration, n, fresh) ==
    [ duration |-> FMul(Round(n, 1), per_img_duration(duration, n)),
      per_img |-> per_img_duration(duration, n),
      images |-> n,
      fresh |-> fresh ]

\* The clip of one scene: n image clips of per_img_duration each,
\* concatenated and cut to the scene's duration, with the subtitle over it.
SceneClip(duration, n, fresh) ==
    [ duration |-> duration,
      per_img |-> per_img_duration(duration, n),
      images |-> n,
      fresh |-> fresh ]

\* Step 4, one pass of the compositing loop.
Composite ==
    /\ pc = "composite"
    /\ IF nfiles[cur][idx] = 0
       THEN /\ Raise("noimages")
            /\ UNCHANGED << idx, scene_clips >>
       ELSE /\ scene_clips' = Append(scene_clips,
                   SceneClip(durations[idx], nfiles[cur][idx], downloaded[idx]))
            /\ UNCHANGED reason
            /\ IF idx < Len(scenes)
               THEN idx' = idx + 1 /\ pc' = pc
               ELSE idx' = 0 /\ pc' = "assemble"
    /\ UNCHANGED << rerun, cur, scenes, imageDir, audioDir, sceneDirs, nfiles,
                    audioFile, outVideo, downloaded, searches, ttsCalls, begun,
                    exported, total_audio_duration, durations, final >>

\* Steps 5-7: every part is set or looped to tts_audio.duration.
Assembled(total) ==
    [video |-> total, overlay |-> total, music |-> total, audio |-> total]

Assemble ==
    /\ pc = "assemble"
    /\ final' = Assembled(total_audio_duration)
    /\ pc' = "export"
    /\ UNCHANGED << rerun, reason, cur, idx, scenes, imageDir, audioDir, sceneDirs,
                    nfiles, audioFile, outVideo, downloaded, searches, ttsCalls,
                    begun, exported, total_audio_duration, durations,
                    scene_clips >>

\* Step 8: write_videofile.
Export ==
    /\ pc = "export"
    /\ outVideo' = [outVideo EXCEPT ![cur] = TRUE]
    /\ exported' = exported \cup {cur}
    /\ pc' = "cleanup"
    /\ UNCHANGED << rerun, reason, cur, idx, scenes, imageDir, audioDir, sceneDirs,
                    nfiles, audioFile, downloaded, searches, ttsCalls, begun,
                    total_audio_duration, durations, scene_clips, final >>

\* The cleanup without the rmtree of the audio directory.
CleanupImagesOnly ==
    /\ pc = "cleanup"
    /\ imageDir' = [imageDir EXCEPT ![cur] = FALSE]
    /\ sceneDirs' = [sceneDirs EXCEPT ![cur] = {}]
    /\ nfiles' = [nfiles EXCEPT ![cur] = [i \in SceneIds |-> 0]]
    /\ pc' = IF cur < NumSets THEN "loop" ELSE "finished"
    /\ scenes' = << >>
    /\ downloaded' = NoDownloads
    /\ searches' = {}
    /\ ttsCalls' = 0
    /\ total_audio_duration' = Zero
    /\ durations' = << >>
    /\ scene_clips' = << >>
    /\ final' = NoFinal
    /\ UNCHANGED << rerun, reason, cur, idx, outVideo, begun, exported, audioDir,
                    audioFile >>

\* Step 9: rmtree of both working directories, then the next scene file.
Cleanup ==
    /\ pc = "cleanup"
    /\ imageDir' = [imageDir EXCEPT ![cur] = FALSE]
    /\ sceneDirs' = [sceneDirs EXCEPT ![cur] = {}]
    /\ nfiles' = [nfiles EXCEPT ![cur] = [i \in SceneIds |-> 0]]
    /\ audioDir' = [audioDir EXCEPT ![cur] = FALSE]
    /\ audioFile' = [audioFile EXCEPT ![cur] = FALSE]
    /\ pc' = IF cur < NumSets THEN "loop" ELSE "finished"
    /\ scenes' = << >>
    /\ downloaded' = NoDownloads
    /\ searches' = {}
    /\ ttsCalls' = 0
    /\ total_audio_duration' = Zero
    /\ durations' = << >>
    /\ scene_clips' = << >>
    /\ final' = NoFinal
    /\ UNCHANGED << rerun, reason, cur, idx, outVideo, begun, exported >>

\* The script is started a second time; the filesystem is as the first run
\* left it.
Rerun ==
    /\ pc \in {"finished", "aborted"}
    /\ ~rerun
    /\ rerun' = TRUE
    /\ pc' = "loop"
    /\ reason' = ""
    /\ cur' = 0
    /\ idx' = 0
    /\ scenes' = << >>
    /\ downloaded' = NoDownloads
    /\ searches' = {}
    /\ ttsCalls' = 0
    /\ begun' = {}
    /\ exported' = {}
    /\ total_audio_duration' = Zero
    /\ durations' = << >>
    /\ scene_clips' = << >>
    /\ final' = NoFinal
    /\ UNCHANGED fsVars

Next ==
    \/ BeginSet(SceneLists(MaxScenes, MaxPipelineWords))
    \/ Download
    \/ Tts
    \/ Alloc
    \/ Composite
    \/ Assemble
    \/ Export
    \/ Cleanup
    \/ Rerun

Spec == Init /\ [][Next]_vars

\* ------------------------------------------- the allocation on its inputs
\* The state after steps 1 and 2 of the first scene file: scenes of up to
\* MaxWords words, every scene directory holding the images just downloaded,
\* the narration synthesized.
InitAlloc ==
    /\ rerun = FALSE
    /\ pc = "alloc"
    /\ reason = ""
    /\ cur = 1
    /\ idx = 0
    /\ scenes \in SceneLists(MaxScenes, MaxWords)
    /\ imageDir = [s \in Sets |-> s = 1]
    /\ audioDir = [s \in Sets |-> s = 1]
    /\ sceneDirs = [s \in Sets |-> IF s = 1 THEN 1..Len(scenes) ELSE {}]
    /\ downloaded \in [SceneIds -> 0..IMAGE_COUNT_PER_SCENE]
    /\ \A i \in SceneIds : i > Len(scenes) => downloaded[i] = 0
    /\ nfiles = [s \in Sets |-> IF s = 1 THEN downloaded ELSE NoDownloads]
    /\ audioFile = [s \in Sets |-> s = 1]
    /\ outVideo = [s \in Sets |-> FALSE]
    /\ searches = 1..Len(scenes)
    /\ ttsCalls = 1
    /\ begun = {1}
    /\ exported = {}
    /\ total_audio_duration \in AllocDurations
    /\ durations = << >>
    /\ scene_clips = << >>
    /\ final = NoFinal

NextAlloc ==
    \/ Alloc
    \/ Composite
    \/ Assemble

SpecAlloc == InitAlloc /\ [][NextAlloc]_vars

\* --------------------------------------------------- exact float values
\* x + y without rounding, as m * 2^e.
ExactAdd(x, y) ==
    LET lo == IF x.e < y.e THEN x.e ELSE y.e
    IN  [m |-> x.m * Pow2(x.e - lo) + y.m * Pow2(y.e - lo), e |-> lo]

\* |x - y| without rounding.
ExactDist(x, y) ==
    LET lo == IF x.e < y.e THEN x.e ELSE y.e
        a == x.m * Pow2(x.e - lo)
        b == y.m * Pow2(y.e - lo)
    IN  [m |-> IF a < b THEN b - a ELSE a - b, e |-> lo]

\* k * x without rounding.
Times(k, x) == [m |-> k * x.m, e |-> x.e]

SameValue(x, y) == FLeq(x, y) /\ FLeq(y, x)

RECURSIVE ExactSum(_)
ExactSum(s) == IF s = << >> THEN Zero ELSE ExactAdd(Head(s), ExactSum(Tail(s)))

ClipDurations == [i \in 1..Len(scene_clips) |-> scene_clips[i].duration]

\* The allocator has run for the current scene file.
Allocated == pc \in {"composite", "assemble", "export", "cleanup"}

\* The compositing loop has run to its end for the current scene file.
Composited == pc \in {"assemble", "export", "cleanup"}

\* ------------------------------------------------------------ rounding
\* |x - y| <= k * 2^(-Precision) * z: x and y agree to within k rounding
\* errors relative to z.
Within(k, x, y, z) == FLeq(Times(Pow2(Precision), ExactDist(x, y)), Times(k, z))

\* C1 as stated: the allocated scene durations sum to the total narration
\* duration exactly.
C1_SumEqualsTotal ==
    Allocated => SameValue(ExactSum(durations), total_audio_duration)

\* C1 amended (scene sets of one scene or more): when the texts hold at
\* least one word every scene gets a
\* duration and the durations sum to the total narration duration to within
\* the rounding of the division and the multiplication (3 * 2^-Precision
\* relative); with no word at all the division raises and nothing is
\* allocated.
C1_SumWithinRounding ==
    /\ Allocated =>
        /\ total_words(scenes) > 0
        /\ Len(durations) = Len(scenes)
        /\ Within(3, ExactSum(durations), total_audio_duration,
                  total_audio_duration)
    /\ reason = "zerodivision" => total_words(scenes) = 0 /\ durations = << >>

\* The allocation has rounded: the sum of two or more durations differs from
\* the total.
C1_Witness ==
    /\ Allocated
    /\ Len(scenes) >= 2
    /\ ~SameValue(ExactSum(durations), total_audio_duration)

\* C2 as stated: duration(i) * words(j) = duration(j) * words(i) exactly
\* for every two scenes, and the scene clip keeps the allocated duration.
C2_ExactlyProportional ==
    /\ Allocated =>
        \A i, j \in 1..Len(scenes) :
            SameValue(Times(WordCount(scenes[j]), durations[i]),
                      Times(WordCount(scenes[i]), durations[j]))
    /\ \A k \in 1..Len(scene_clips) : scene_clips[k].duration = durations[k]

\* C2 amended: the durations are proportional to the word counts to within
\* rounding (|d(i) * w(j) - d(j) * w(i)| <= 6 * 2^-Precision * w(i) * w(j) *
\* total / total_words), a scene with twice the words of another gets
\* exactly twice its duration, and the scene clip keeps the allocated
\* duration whatever the 2.5 s floor does to its image clips.
C2_ProportionalWithinRounding ==
    /\ Allocated =>
        \A i, j \in 1..Len(scenes) :
            LET wi == WordCount(scenes[i])
                wj == WordCount(scenes[j])
            IN  /\ Within(6 * wi * wj,
                          Times(wj * total_words(scenes), durations[i]),
                          Times(wi * total_words(scenes), durations[j]),
                          total_audio_duration)
                /\ wj = 2 * wi => SameValue(durations[j], Times(2, durations[i]))
    /\ \A k \in 1..Len(scene_clips) : scene_clips[k].duration = durations[k]

\* Floor(k): the 2.5 s floor lengthens the image clips of clip k beyond the
\* scene's duration.
FloorBinds(k) ==
    ~FLeq(Times(scene_clips[k].images, MinImageDuration), scene_clips[k].duration)

\* A composited scene set in which one scene has twice the words of
\* another and the floor binds on a clip.
C2_Witness ==
    /\ Composited
    /\ \E i, j \in 1..Len(scenes) :
        WordCount(scenes[i]) > 0 /\ WordCount(scenes[j]) = 2 * WordCount(scenes[i])
    /\ \E k \in 1..Len(scene_clips) : FloorBinds(k)

\* per is max(duration / n, 2.5) in float arithmetic: 2.5 when duration / n
\* is below it, the float nearest to duration / n otherwise.
IsFlooredQuotient(per, duration, n) ==
    /\ FLeq(MinImageDuration, per)
    /\ IF FLeq(Times(n, MinImageDuration), duration)
       THEN Within(1, Times(n, per), duration, duration)
       ELSE per = MinImageDuration

ClipsWellTimed ==
    \A k \in 1..Len(scene_clips) :
        /\ scene_clips[k].images >= 1
        /\ IsFlooredQuotient(scene_clips[k].per_img, durations[k],
                             scene_clips[k].images)
        /\ scene_clips[k].duration = durations[k]

PartsLastTheNarration ==
    pc \in {"export", "cleanup"} =>
        /\ final.video = total_audio_duration
        /\ final.overlay = total_audio_duration
        /\ final.music = total_audio_duration
        /\ final.audio = total_audio_duration

\* C10 as stated: image clips last max(d / n, 2.5), the scene clip lasts
\* d, the scene clips sum exactly to the narration duration and the
\* assembled video, background and music last exactly the narration.
C10_ClipsSumToNarration ==
    /\ ClipsWellTimed
    /\ Composited => SameValue(ExactSum(ClipDurations), total_audio_duration)
    /\ PartsLastTheNarration

\* C10 amended: as stated, except that the scene clips' durations sum to
\* the narration duration only to within rounding (3 * 2^-Precision
\* relative).
C10_ClipsSumWithinRounding ==
    /\ ClipsWellTimed
    /\ Composited =>
        /\ Len(scene_clips) = Len(scenes)
        /\ Within(3, ExactSum(ClipDurations), total_audio_duration,
                  total_audio_duration)
    /\ PartsLastTheNarration

\* An assembled video with a scene whose image clips the floor lengthened.
C10_Witness ==
    /\ pc = "export"
    /\ \E k \in 1..Len(scene_clips) : FloorBinds(k)

\* ------------------------------------------------------------- pipeline
NoWorkingDirs(s) ==
    /\ ~imageDir[s]
    /\ ~audioDir[s]
    /\ sceneDirs[s] = {}
    /\ ~audioFile[s]
    /\ \A i \in SceneIds : nfiles[s][i] = 0

\* C3: a scene with zero images downloaded in the current run gets no clip,
\* and its scene set no exported video.
C3_ZeroDownloadsFail ==
    /\ \A k \in 1..Len(scene_clips) : scene_clips[k].fresh >= 1
    /\ pc = "cleanup" => \A i \in 1..Len(scenes) : downloaded[i] >= 1

\* C4: once the loop has ended with every scene set exported, no working
\* directory of any scene set exists; and a working directory disappears
\* only after its scene set's video was exported in this run.
C4_CleanupAfterExport ==
    /\ [](pc = "finished" => exported = Sets /\ \A s \in Sets : NoWorkingDirs(s))
    /\ [][\A s \in Sets :
            (imageDir[s] /\ ~imageDir'[s]) \/ (audioDir[s] /\ ~audioDir'[s])
                => s \in exported /\ outVideo[s]]_vars

\* A run that exported every scene set and ended.
C4_Witness == pc = "finished" /\ exported = Sets /\ \A s \in Sets : outVideo[s]

\* C5: a failed synthesis ends the run at once (nothing allocated or
\* composited, nothing exported for the scene set, no later scene set begun,
\* earlier videos still there), and an ended run does nothing more.
C5_TtsFailureHaltsRun ==
    /\ [](reason = "tts" =>
            /\ pc = "aborted"
            /\ ttsCalls = 1
            /\ durations = << >> /\ scene_clips = << >>
            /\ begun = 1..cur
            /\ exported = 1..(cur - 1)
            /\ \A s \in 1..(cur - 1) : outVideo[s])
    /\ [][pc = "aborted" => pc' = "loop" /\ cur' = 0 /\ UNCHANGED fsVars]_vars

\* Synthesis failed for a scene set that has an earlier, exported one.
C5_Witness == reason = "tts" /\ pc = "aborted" /\ cur > 1 /\ exported # {}

\* C6: a video is exported for a scene set only if every scene has
\* non-empty text and at least one image downloaded in this run.
C6_ExportNeedsTextAndImages ==
    pc = "cleanup" =>
        \A i \in 1..Len(scenes) : scenes[i] # << >> /\ downloaded[i] >= 1

\* C7: when a run has ended, however it ended, no working directory exists.
C7_NoArtifactsAfterRun ==
    pc \in {"finished", "aborted"} => \A s \in Sets : NoWorkingDirs(s)

\* C8: a scene set that reaches compositing had one search per scene and
\* one synthesis in this run, and every image composited was written in
\* this run.
C8_NoStaleInputs ==
    /\ Allocated => searches = 1..Len(scenes) /\ ttsCalls = 1
    /\ \A k \in 1..Len(scene_clips) :
        scene_clips[k].images = scene_clips[k].fresh

\* C9: the download loop never raises, whatever a search returns: it goes
\* on to the next scene and then to the synthesis, which is called only
\* after a search for every scene; the "no images" error is raised in the
\* compositing loop, after the synthesis, at the first scene whose
\* directory holds no image, with a clip for each scene before it and none
\* from it on, and the working directories stay.
C9_EmptySearchFailsAtCompositing ==
    /\ [][pc = "download" =>
            /\ reason' = ""
            /\ searches' = searches \cup {idx}
            /\ \/ idx < Len(scenes) /\ pc' = "download" /\ idx' = idx + 1
               \/ idx = Len(scenes) /\ pc' = "tts"]_vars
    /\ [](pc = "tts" => searches = 1..Len(scenes))
    /\ [](reason = "noimages" =>
            /\ pc = "aborted"
            /\ searches = 1..Len(scenes)
            /\ ttsCalls = 1
            /\ audioFile[cur]
            /\ idx \in 1..Len(scenes)
            /\ nfiles[cur][idx] = 0
            /\ \A i \in 1..(idx - 1) : nfiles[cur][i] > 0
            /\ Len(scene_clips) = idx - 1
            /\ cur \notin exported
            /\ imageDir[cur] /\ audioDir[cur]
            /\ 1..Len(scenes) \subseteq sceneDirs[cur])

\* The search for the second scene returned nothing, the first scene was
\* composited and the run ended at the second.
C9_Witness ==
    /\ reason = "noimages"
    /\ idx = 2
    /\ downloaded[2] = 0
    /\ Len(scene_clips) = 1

====
